---- MODULE Spec2Model ----
(***************************************************************************)
(* The searchable card grid of src/src/App.jsx: the debounced query, the   *)
(* filter over the generated dataset, the pages-loaded counter with its    *)
(* Prev / Next / Load more / page-number controls, the intersection        *)
(* observer that loads more pages, and the page window builder.            *)
(*                                                                         *)
(* Strings are sequences of one-character strings, so that trimming, case  *)
(* folding and substring search are computed character by character.       *)
(***************************************************************************)
EXTENDS Integers, Sequences, FiniteSets, TLC

VARIABLES
    query,            \* useState('') of App: the raw input value
    debouncedQuery,   \* useState(value) of useDebouncedValue
    pagesLoaded,      \* useState(1) of App
    timers,           \* the pending setTimeout callbacks of useDebouncedValue
    timerId,          \* the id the last run of the debounce effect holds
    observers,        \* the connected IntersectionObservers, oldest first
    observerDeps,     \* [effectivePagesLoaded, totalPages] of the last observer effect run
    resetDep,         \* the debouncedQuery for which setPagesLoaded(1) has been applied
    mounted,          \* the component is mounted
    sinceUpdate,      \* ms since the last setQuery (or the mount), capped at the delay
    chainUpdates,     \* setQuery calls of the current burst, capped
    chainChanges,     \* changes of debouncedQuery since the burst began, capped
    chainEmits,       \* debounce timer callbacks run since the burst began, capped
    probe             \* arguments and result of a pure function under check

vars ==
    <<query, debouncedQuery, pagesLoaded, timers, timerId, observers,
      observerDeps, resetDep, mounted, sinceUpdate, chainUpdates,
      chainChanges, chainEmits, probe>>

appVars ==
    <<query, debouncedQuery, pagesLoaded, timers, timerId, observers,
      observerDeps, resetDep, mounted, sinceUpdate, chainUpdates,
      chainChanges, chainEmits>>

---------------------------------------------------------------------------
(* Program constants *)

PAGE_SIZE == 50

TOTAL_ITEMS == 1000

DEBOUNCE_MS == 200

MAX_LENGTH == 7

(* Bounds of the model *)

\* One step of the clock, in ms.
TickMs == 50

\* pagesLoaded is explored down to -MaxBelow.
MaxBelow == 2

\* Intersecting entries delivered to one observer callback.
MaxEntries == 2

\* buildPageWindow is checked for every total up to MaxTotal.
MaxTotal == 22

\* The filter is checked on datasets of up to MaxItems items ...
MaxItems == 3

\* ... and queries of up to MaxQueryLen characters.
MaxQueryLen == 3

\* A burst counter stops counting here.
CounterCap == 2

---------------------------------------------------------------------------
(* Arithmetic and sequences *)

Min(a, b) == IF a <= b THEN a ELSE b

Max(a, b) == IF a >= b THEN a ELSE b

\* Math.ceil(n / d) for n >= 0, d > 0
Ceil(n, d) == IF n % d = 0 THEN n \div d ELSE (n \div d) + 1

Range(s) == {s[k] : k \in 1..Len(s)}

IsPrefix(a, b) == Len(a) <= Len(b) /\ \A k \in 1..Len(a) : a[k] = b[k]

\* Array.prototype.slice(start, end): a negative index counts from the end.
slice(s, start, end) ==
    LET len == Len(s)
        k == IF start < 0 THEN Max(len + start, 0) ELSE Min(start, len)
        final == IF end < 0 THEN Max(len + end, 0) ELSE Min(end, len)
    IN  IF final <= k THEN <<>> ELSE SubSeq(s, k + 1, final)

---------------------------------------------------------------------------
(* Strings *)

Str_Item ==
    <<"I", "t", "e", "m", " ">>

Str_Category ==
    <<"C", "a", "t", "e", "g", "o", "r", "y", " ">>

Str_DescA ==
    <<"T", "h", "i", "s", " ", "i", "s", " ", "a", " ", "s", "h", "o", "r",
      "t", " ", "d", "e", "s", "c", "r", "i", "p", "t", "i", "o", "n", " ",
      "f", "o", "r", " ", "i", "t", "e", "m", " ">>

Str_DescB ==
    <<".", " ", "I", "t", " ", "i", "s", " ", "p", "a", "r", "t", " ", "o",
      "f", " ", "t", "h", "e", " ", "d", "e", "m", "o", " ", "d", "a", "t",
      "a", "s", "e", "t", " ", "u", "s", "e", "d", " ", "f", "o", "r", " ",
      "s", "e", "a", "r", "c", "h", ",", " ", "p", "a", "g", "i", "n", "a",
      "t", "i", "o", "n", ",", " ", "a", "n", "d", " ", "i", "n", "f", "i",
      "n", "i", "t", "e", " ", "l", "o", "a", "d", "i", "n", "g", ".">>

Str_Url ==
    <<"h", "t", "t", "p", "s", ":", "/", "/", "e", "x", "a", "m", "p", "l",
      "e", ".", "c", "o", "m", "/", "i", "t", "e", "m", "s", "/">>

DigitChars == <<"0", "1", "2", "3", "4", "5", "6", "7", "8", "9">>

\* `${i}` for an integer i >= 0: its decimal digits
RECURSIVE NumberToString(_)
NumberToString(n) ==
    IF n < 10
    THEN <<DigitChars[n + 1]>>
    ELSE NumberToString(n \div 10) \o <<DigitChars[(n % 10) + 1]>>

UpperCaseLetters ==
    <<"A", "B", "C", "D", "E", "F", "G", "H", "I", "J", "K", "L", "M",
      "N", "O", "P", "Q", "R", "S", "T", "U", "V", "W", "X", "Y", "Z">>

LowerCaseLetters ==
    <<"a", "b", "c", "d", "e", "f", "g", "h", "i", "j", "k", "l", "m",
      "n", "o", "p", "q", "r", "s", "t", "u", "v", "w", "x", "y", "z">>

LowerCaseOf ==
    [c \in Range(UpperCaseLetters) |->
        LowerCaseLetters[CHOOSE k \in 1..26 : UpperCaseLetters[k] = c]]

UpperCaseSet == DOMAIN LowerCaseOf

\* The characters String.prototype.trim removes, as far as inputs hold them.
WhiteSpace == {" ", "\t", "\n"}

\* String.prototype.toLowerCase
toLowerCase(s) ==
    [k \in 1..Len(s) |-> IF s[k] \in UpperCaseSet THEN LowerCaseOf[s[k]] ELSE s[k]]

\* String.prototype.trim: drop whitespace from the front, then from the back
RECURSIVE trimStart(_)
trimStart(s) ==
    IF s # <<>> /\ Head(s) \in WhiteSpace THEN trimStart(Tail(s)) ELSE s

RECURSIVE trimEnd(_)
trimEnd(s) ==
    IF s # <<>> /\ s[Len(s)] \in WhiteSpace
    THEN trimEnd(SubSeq(s, 1, Len(s) - 1))
    ELSE s

trim(s) == trimEnd(trimStart(s))

\* String.prototype.includes: q occurs in s at some offset
includes(s, q) ==
    \E k \in 0..(Len(s) - Len(q)) : \A j \in 1..Len(q) : s[k + j] = q[j]

---------------------------------------------------------------------------
(* The dataset *)

\* A plausible slip: the category is i % 10, without the + 1.
mockItem_NoShift(i) ==
    [id |-> i,
     title |-> Str_Item \o NumberToString(i),
     subtitle |-> Str_Category \o NumberToString(i % 10),
     description |-> Str_DescA \o NumberToString(i) \o Str_DescB,
     externalUrl |-> Str_Url \o NumberToString(i)]

\* The item the loop pushes for i.
mockItem(i) ==
    [id |-> i,
     title |-> Str_Item \o NumberToString(i),
     subtitle |-> Str_Category \o NumberToString((i % 10) + 1),
     description |-> Str_DescA \o NumberToString(i) \o Str_DescB,
     externalUrl |-> Str_Url \o NumberToString(i)]

\* const items = []; for (let i = 1; i <= total; i += 1) items.push(...)
generateMockItems(total) == <<>> \o [i \in 1..total |-> mockItem(i)]

items == generateMockItems(TOTAL_ITEMS)

---------------------------------------------------------------------------
(* The filter: the callback of useMemo *)

\* A plausible slip: the query is lower-cased but not trimmed.
filterItems_NoTrim(its, dq) ==
    LET q == toLowerCase(dq)
    IN  IF q = <<>>
        THEN its
        ELSE SelectSeq(its, LAMBDA it :
                \/ includes(toLowerCase(it.title), q)
                \/ includes(toLowerCase(it.subtitle), q)
                \/ includes(toLowerCase(it.description), q))

\* A plausible slip: the description is not searched.
filterItems_NoDescription(its, dq) ==
    LET q == toLowerCase(trim(dq))
    IN  IF q = <<>>
        THEN its
        ELSE SelectSeq(its, LAMBDA it :
                \/ includes(toLowerCase(it.title), q)
                \/ includes(toLowerCase(it.subtitle), q))

filterItems(its, dq) ==
    LET q == toLowerCase(trim(dq))
    IN  IF q = <<>>
        THEN its
        ELSE SelectSeq(its, LAMBDA it :
                \/ includes(toLowerCase(it.title), q)
                \/ includes(toLowerCase(it.subtitle), q)
                \/ includes(toLowerCase(it.description), q))

---------------------------------------------------------------------------
(* The page window builder *)

\* An element of a page window: a page number or the gap marker.
PageLabel(n) == [gap |-> FALSE, page |-> n]

GAP == [gap |-> TRUE, page |-> 0]

\* Array.from(pages).sort((a, b) => a - b)
RECURSIVE SortAscending(_)
SortAscending(S) ==
    IF S = {}
    THEN <<>>
    ELSE LET m == CHOOSE x \in S : \A y \in S : x <= y
         IN  <<m>> \o SortAscending(S \ {m})

\* The loop that copies the sorted pages, with a gap marker before a page
\* that is more than one above its predecessor.
RECURSIVE withGapsFrom(_, _)
withGapsFrom(sorted, i) ==
    IF i > Len(sorted)
    THEN <<>>
    ELSE (IF i > 1 /\ sorted[i] - sorted[i - 1] > 1 THEN <<GAP>> ELSE <<>>)
         \o <<PageLabel(sorted[i])>>
         \o withGapsFrom(sorted, i + 1)

\* The Set of kept page numbers.
keptPages(current, total) ==
    {1, total, current, current - 1, current + 1}
        \cup {i \in (current - 2)..(current + 2) : i > 0 /\ i <= total}

\* A plausible slip: the kept pages are collected in an array, not a Set.
RECURSIVE SortAscendingList(_)
SortAscendingList(s) ==
    IF s = <<>>
    THEN <<>>
    ELSE LET k == CHOOSE a \in 1..Len(s) : \A b \in 1..Len(s) : s[a] <= s[b]
         IN  <<s[k]>> \o SortAscendingList(SubSeq(s, 1, k - 1) \o SubSeq(s, k + 1, Len(s)))

buildPageWindow_Array(current, total, maxLength) ==
    IF total <= maxLength
    THEN [idx \in 1..total |-> PageLabel(idx)]
    ELSE LET near == SelectSeq([k \in 1..5 |-> current - 3 + k],
                               LAMBDA i : i > 0 /\ i <= total)
             pages == <<1, total, current, current - 1, current + 1>> \o near
         IN  withGapsFrom(SortAscendingList(pages), 1)

\* A plausible slip: only one neighbour on each side of current is kept.
buildPageWindow_Narrow(current, total, maxLength) ==
    IF total <= maxLength
    THEN [idx \in 1..total |-> PageLabel(idx)]
    ELSE withGapsFrom(SortAscending({1, total, current, current - 1, current + 1}), 1)

\* A plausible slip: the short-circuit for a small total excludes total = maxLength.
buildPageWindow_Strict(current, total, maxLength) ==
    IF total < maxLength
    THEN [idx \in 1..total |-> PageLabel(idx)]
    ELSE withGapsFrom(SortAscending(keptPages(current, total)), 1)

buildPageWindow(current, total, maxLength) ==
    IF total <= maxLength
    THEN [idx \in 1..total |-> PageLabel(idx)]
    ELSE withGapsFrom(SortAscending(keptPages(current, total)), 1)

---------------------------------------------------------------------------
(* The queries typed into the search field *)

Q_EMPTY == <<>>

Q_BLANK == <<" ", " ">>

Q_ITEM_1 == <<"I", "t", "e", "m", " ", "1">>

Q_ITEM_12 == <<"I", "t", "e", "m", " ", "1", "2">>

Q_CATEGORY_3 == <<"C", "a", "t", "e", "g", "o", "r", "y", " ", "3">>

Q_NONE == <<"z", "z">>

Queries == {Q_EMPTY, Q_BLANK, Q_ITEM_1, Q_ITEM_12, Q_CATEGORY_3, Q_NONE}

---------------------------------------------------------------------------
(* What a render computes from the state *)

\* useMemo(..., [items, debouncedQuery]): one filter pass per debounced query
filteredItemsMemo == [dq \in Queries |-> filterItems(items, dq)]

filteredItemsFor(dq) == filteredItemsMemo[dq]

\* A plausible slip: Math.floor for Math.ceil.
totalPagesFor_Floor(dq) == Max(1, Len(filteredItemsFor(dq)) \div PAGE_SIZE)

totalPagesFor(dq) == Max(1, Ceil(Len(filteredItemsFor(dq)), PAGE_SIZE))

effectivePagesLoadedFor(dq, pl) == Min(pl, totalPagesFor(dq))

visibleItemsFor(dq, pl) ==
    slice(filteredItemsFor(dq), 0, effectivePagesLoadedFor(dq, pl) * PAGE_SIZE)

filteredItems == filteredItemsFor(debouncedQuery)

totalPages == totalPagesFor(debouncedQuery)

effectivePagesLoaded == effectivePagesLoadedFor(debouncedQuery, pagesLoaded)

visibleItems == visibleItemsFor(debouncedQuery, pagesLoaded)

pageWindow == buildPageWindow(effectivePagesLoaded, totalPages, MAX_LENGTH)

\* The page-number buttons the navigation renders.
pageButtons == {w.page : w \in {x \in Range(pageWindow) : ~x.gap}}

prevDisabled == effectivePagesLoaded <= 1

nextDisabled == effectivePagesLoaded >= totalPages

loadMoreShown == effectivePagesLoaded < totalPages

emptyStateShown == Len(visibleItems) = 0

---------------------------------------------------------------------------
(* Timers of useDebouncedValue *)

\* A plausible slip: the effect returns no cleanup, the old timer stays.
clearTimeout_Leak(ts, id) == ts

clearTimeout(ts, id) == {t \in ts : t.id # id}

\* setTimeout returns an id no pending timer has.
freshTimerId(ts) ==
    CHOOSE n \in 1..(Cardinality(ts) + 1) :
        /\ \A t \in ts : t.id # n
        /\ \A m \in 1..(n - 1) : \E t \in ts : t.id = m

\* A plausible slip: the effect returns no cleanup, so a new value starts a
\* timer next to the pending one.
debounceEffect_NoCleanup(ts, id, value, delayMs) ==
    LET newId == freshTimerId(ts)
    IN  [timers |-> ts \cup {[id |-> newId, value |-> value, remaining |-> delayMs]},
         timerId |-> newId]

\* A plausible slip: value is missing from the dependencies, so the effect
\* runs on mount only.
debounceEffect_MissingDep(ts, id, value, delayMs) ==
    IF id = 0
    THEN [timers |-> {[id |-> 1, value |-> value, remaining |-> delayMs]},
          timerId |-> 1]
    ELSE [timers |-> ts, timerId |-> id]

\* The effect of useDebouncedValue re-run for a new value: the cleanup of the
\* previous run, then setTimeout(() => setDebounced(value), delayMs).
debounceEffect(ts, id, value, delayMs) ==
    LET cleaned == clearTimeout(ts, id)
        newId == freshTimerId(cleaned)
    IN  [timers |-> cleaned \cup {[id |-> newId, value |-> value, remaining |-> delayMs]},
         timerId |-> newId]

timerDue == \E t \in timers : t.remaining = 0

---------------------------------------------------------------------------
(* Effects of App *)

\* setPagesLoaded(1) of the effect on [debouncedQuery]
\* A plausible slip: the effect leaves the counter as it is.
resetValue_Keep(pl) == pl

resetValue(pl) == 1

\* The effect on [debouncedQuery] has yet to reset the counter.
resetPending == resetDep # debouncedQuery

\* A plausible slip: the effect returns no cleanup.
observerCleanup_Leak(obs, deps) == obs

\* The cleanup of the observer effect: observer.disconnect() for the observer
\* the last run created, the newest one; a run that returned early created
\* none and has no cleanup.
observerCleanup(obs, deps) ==
    IF deps[1] < deps[2] /\ obs # <<>>
    THEN SubSeq(obs, 1, Len(obs) - 1)
    ELSE obs

\* The observer effect re-run: the cleanup of the previous run, then a new
\* observer unless every page is loaded.  The sentinel element is always
\* rendered, so sentinelRef.current is never null.
observerEffect(obs, deps, eff, total) ==
    IF eff >= total
    THEN observerCleanup(obs, deps)
    ELSE Append(observerCleanup(obs, deps), [totalPages |-> total])

observerPending == observerDeps # <<effectivePagesLoaded, totalPages>>

\* The observers once the pending observer effect has run for the committed render.
observersFlushed ==
    IF observerPending
    THEN observerEffect(observers, observerDeps, effectivePagesLoaded, totalPages)
    ELSE observers

\* The observers after a render with (eff, total) whose effects run at once.
observersSettled(eff, total) ==
    IF <<eff, total>> # <<effectivePagesLoaded, totalPages>>
    THEN observerEffect(observersFlushed, <<effectivePagesLoaded, totalPages>>, eff, total)
    ELSE observersFlushed

\* A plausible slip: the updater is (prev) => prev + 1, without the cap.
RECURSIVE intersectionUpdate_NoCap(_, _, _)
intersectionUpdate_NoCap(prev, n, cap) ==
    IF n = 0 THEN prev ELSE intersectionUpdate_NoCap(prev + 1, n - 1, cap)

\* The callback of the observer: one increment per intersecting entry, capped
\* at the totalPages of the render that created the observer.
RECURSIVE intersectionUpdate(_, _, _)
intersectionUpdate(prev, n, cap) ==
    IF n = 0 THEN prev ELSE intersectionUpdate(Min(prev + 1, cap), n - 1, cap)

---------------------------------------------------------------------------
(* The state after the first render and its effects *)

InitApp ==
    /\ query = Q_EMPTY
    /\ debouncedQuery = Q_EMPTY
    /\ pagesLoaded = 1
    /\ timers = debounceEffect({}, 0, Q_EMPTY, DEBOUNCE_MS).timers
    /\ timerId = debounceEffect({}, 0, Q_EMPTY, DEBOUNCE_MS).timerId
    /\ observers = observerEffect(<<>>, <<0, 0>>,
                                  effectivePagesLoadedFor(Q_EMPTY, 1),
                                  totalPagesFor(Q_EMPTY))
    /\ observerDeps = <<effectivePagesLoadedFor(Q_EMPTY, 1), totalPagesFor(Q_EMPTY)>>
    /\ resetDep = Q_EMPTY
    /\ mounted = TRUE
    /\ sinceUpdate = 0
    /\ chainUpdates = 0
    /\ chainChanges = 0
    /\ chainEmits = 0

Init == InitApp /\ probe = [op |-> "none"]

---------------------------------------------------------------------------
(* Events.  An update made by a DOM event handler (typing, a click) is      *)
(* rendered and its effects run in the same step.  An update made by a      *)
(* timer or an observer callback is rendered in that step and the effects   *)
(* whose dependencies it changed run in a later step, RunEffects; effects   *)
(* still pending when such a callback's update is rendered run first.       *)

\* Time passes, up to the moment the next timer is due.  Once the component
\* is unmounted time matters only while a timer is left.
Tick ==
    /\ ~timerDue
    /\ ~(~mounted /\ timers = {})
    /\ LET d == CHOOSE x \in {TickMs} \cup {t.remaining : t \in timers} :
                    \A y \in {TickMs} \cup {t.remaining : t \in timers} : x <= y
       IN  /\ timers' = {[t EXCEPT !.remaining = @ - d] : t \in timers}
           /\ sinceUpdate' = Min(DEBOUNCE_MS, sinceUpdate + d)
    /\ UNCHANGED <<query, debouncedQuery, pagesLoaded, timerId, observers,
                   observerDeps, resetDep, mounted, chainUpdates, chainChanges,
                   chainEmits, probe>>

\* onChange of the search field: setQuery(e.target.value), then the effect of
\* useDebouncedValue for the new value; effects still pending run before the
\* render.
Type(q) ==
    /\ mounted
    /\ ~timerDue
    /\ q # query
    /\ query' = q
    /\ timers' = debounceEffect(timers, timerId, q, DEBOUNCE_MS).timers
    /\ timerId' = debounceEffect(timers, timerId, q, DEBOUNCE_MS).timerId
    /\ pagesLoaded' = IF resetPending THEN resetValue(pagesLoaded) ELSE pagesLoaded
    /\ resetDep' = debouncedQuery
    /\ observers' = observersSettled(effectivePagesLoadedFor(debouncedQuery, pagesLoaded'),
                                     totalPages)
    /\ observerDeps' = <<effectivePagesLoadedFor(debouncedQuery, pagesLoaded'), totalPages>>
    /\ sinceUpdate' = 0
    /\ IF sinceUpdate < DEBOUNCE_MS
       THEN /\ chainUpdates' = Min(CounterCap, chainUpdates + 1)
            /\ UNCHANGED <<chainChanges, chainEmits>>
       ELSE /\ chainUpdates' = 1
            /\ chainChanges' = 0
            /\ chainEmits' = 0
    /\ UNCHANGED <<debouncedQuery, mounted, probe>>

\* The timer callback of useDebouncedValue: setDebounced(value).
TimerFire(t) ==
    /\ t \in timers
    /\ t.remaining = 0
    /\ timers' = timers \ {t}
    /\ IF mounted
       THEN /\ debouncedQuery' = t.value
            /\ pagesLoaded' = IF resetPending THEN resetValue(pagesLoaded) ELSE pagesLoaded
            /\ resetDep' = debouncedQuery
            /\ observers' = observersFlushed
            /\ observerDeps' = <<effectivePagesLoaded, totalPages>>
            /\ chainEmits' = Min(CounterCap, chainEmits + 1)
            /\ chainChanges' = IF t.value # debouncedQuery
                               THEN Min(CounterCap, chainChanges + 1)
                               ELSE chainChanges
       ELSE UNCHANGED <<debouncedQuery, pagesLoaded, resetDep, observers,
                        observerDeps, chainEmits, chainChanges>>
    /\ UNCHANGED <<query, timerId, mounted, sinceUpdate, chainUpdates, probe>>

\* A click handler's setPagesLoaded, rendered with its effects; a reset
\* still pending is queued behind the handler's update and overrides it.
SetPagesLoadedByClick(next) ==
    /\ pagesLoaded' = IF resetPending THEN resetValue(next) ELSE next
    /\ resetDep' = debouncedQuery
    /\ observers' = observersSettled(effectivePagesLoadedFor(debouncedQuery, pagesLoaded'),
                                     totalPages)
    /\ observerDeps' = <<effectivePagesLoadedFor(debouncedQuery, pagesLoaded'), totalPages>>
    /\ UNCHANGED <<query, debouncedQuery, timers, timerId, mounted,
                   sinceUpdate, chainUpdates, chainChanges, chainEmits, probe>>

\* Prev: setPagesLoaded((p) => Math.max(1, p - 1))
Prev ==
    /\ mounted
    /\ ~prevDisabled
    /\ SetPagesLoadedByClick(Max(1, pagesLoaded - 1))

\* Next: setPagesLoaded((p) => Math.min(totalPages, p + 1))
NextPage ==
    /\ mounted
    /\ ~nextDisabled
    /\ SetPagesLoadedByClick(Min(totalPages, pagesLoaded + 1))

\* Load more: setPagesLoaded((p) => Math.min(totalPages, p + 1))
LoadMore ==
    /\ mounted
    /\ loadMoreShown
    /\ SetPagesLoadedByClick(Min(totalPages, pagesLoaded + 1))

\* A page-number button of the page window: setPagesLoaded(p)
ClickPage(p) ==
    /\ mounted
    /\ p \in pageButtons
    /\ p >= -MaxBelow
    /\ SetPagesLoadedByClick(p)

\* The callback of the k-th connected observer, with n intersecting entries.
Intersect(k, n) ==
    /\ mounted
    /\ k \in 1..Len(observers)
    /\ pagesLoaded' = IF resetPending
                      THEN resetValue(pagesLoaded)
                      ELSE intersectionUpdate(pagesLoaded, n, observers[k].totalPages)
    /\ resetDep' = debouncedQuery
    /\ observers' = observersFlushed
    /\ observerDeps' = <<effectivePagesLoaded, totalPages>>
    /\ UNCHANGED <<query, debouncedQuery, timers, timerId, mounted, sinceUpdate,
                   chainUpdates, chainChanges, chainEmits, probe>>

\* The effects left pending by the last render run: setPagesLoaded(1) if the
\* debounced query changed, the observer effect if its dependencies changed.
RunEffects ==
    /\ mounted
    /\ resetPending \/ observerPending
    /\ pagesLoaded' = IF resetPending THEN resetValue(pagesLoaded) ELSE pagesLoaded
    /\ resetDep' = debouncedQuery
    /\ observers' = observersFlushed
    /\ observerDeps' = <<effectivePagesLoaded, totalPages>>
    /\ UNCHANGED <<query, debouncedQuery, timers, timerId, mounted, sinceUpdate,
                   chainUpdates, chainChanges, chainEmits, probe>>

\* Unmount: the cleanups of the effects that ran last.
Unmount ==
    /\ mounted
    /\ mounted' = FALSE
    /\ timers' = clearTimeout(timers, timerId)
    /\ observers' = observerCleanup(observers, observerDeps)
    /\ UNCHANGED <<query, debouncedQuery, pagesLoaded, timerId, observerDeps,
                   resetDep, sinceUpdate, chainUpdates, chainChanges, chainEmits,
                   probe>>

Next ==
    \/ Tick
    \/ \E q \in Queries : Type(q)
    \/ \E t \in timers : TimerFire(t)
    \/ Prev
    \/ NextPage
    \/ LoadMore
    \/ \E p \in pageButtons : ClickPage(p)
    \/ \E k \in 1..Len(observers), n \in 1..MaxEntries : Intersect(k, n)
    \/ RunEffects
    \/ Unmount

Spec == Init /\ [][Next]_vars

---------------------------------------------------------------------------
(* buildPageWindow as a pure function: every total up to MaxTotal and every *)
(* current in [1, total]                                                    *)

InitWindow ==
    /\ InitApp
    /\ probe \in {[op |-> "windowArgs", current |-> c, total |-> t] :
                    t \in 1..MaxTotal, c \in 1..MaxTotal}
    /\ probe.current <= probe.total

CallBuildPageWindow ==
    /\ probe.op = "windowArgs"
    /\ probe' = [op |-> "buildPageWindow",
                 current |-> probe.current,
                 total |-> probe.total,
                 window |-> buildPageWindow(probe.current, probe.total, MAX_LENGTH)]
    /\ UNCHANGED appVars

NextWindow == CallBuildPageWindow

SpecWindow == InitWindow /\ [][NextWindow]_vars

windowBuilt == probe.op = "buildPageWindow"

---------------------------------------------------------------------------
(* The filter as a pure function: every dataset of up to MaxItems items of  *)
(* a small pool and every query of up to MaxQueryLen characters             *)

FilterChars == {"a", "A", "b", " "}

PoolItems ==
    {[id |-> 1, title |-> <<"A", " ", "b">>, subtitle |-> <<>>,
      description |-> <<>>, externalUrl |-> <<"1">>],
     [id |-> 2, title |-> <<"b">>, subtitle |-> <<"a", "A">>,
      description |-> <<>>, externalUrl |-> <<"2">>],
     [id |-> 3, title |-> <<>>, subtitle |-> <<"b">>,
      description |-> <<"b", "a">>, externalUrl |-> <<"3">>],
     [id |-> 4, title |-> <<"b", "b">>, subtitle |-> <<"b", " ", "b">>,
      description |-> <<" ">>, externalUrl |-> <<"a">>]}

SeqsUpTo(S, n) == UNION {[1..k -> S] : k \in 0..n}

InitFilter ==
    /\ InitApp
    /\ probe \in {[op |-> "filterArgs", items |-> its, query |-> q] :
                    its \in SeqsUpTo(PoolItems, MaxItems),
                    q \in SeqsUpTo(FilterChars, MaxQueryLen)}

CallFilter ==
    /\ probe.op = "filterArgs"
    /\ probe' = [op |-> "filter",
                 items |-> probe.items,
                 query |-> probe.query,
                 result |-> filterItems(probe.items, probe.query)]
    /\ UNCHANGED appVars

NextFilter == CallFilter

SpecFilter == InitFilter /\ [][NextFilter]_vars

filterDone == probe.op = "filter"

---------------------------------------------------------------------------
(* Claims *)

\* C1: in every reachable state the pages-loaded counter used to slice the
\* visible items and to build the page window, effectivePagesLoaded, lies in
\* [1, totalPages].
C1_EffectiveInRange ==
    mounted => (1 <= effectivePagesLoaded /\ effectivePagesLoaded <= totalPages)

\* C2: for every total >= 1 and every current in [1, total], the window
\* buildPageWindow(current, total) returns has page 1 as its first element
\* and page total as its last.
C2_FirstOneLastTotal ==
    windowBuilt =>
        /\ probe.window[1] = PageLabel(1)
        /\ probe.window[Len(probe.window)] = PageLabel(probe.total)

\* The burst of updates is over: the delay has elapsed since its last update
\* and the timer due then has run.
chainDone ==
    /\ mounted
    /\ chainUpdates >= 2
    /\ sinceUpdate = DEBOUNCE_MS
    /\ ~timerDue

\* C3, as stated: after several updates each less than the delay after the
\* previous one, the debounced value has changed exactly once, to the value
\* of the last update.
C3_ChangesExactlyOnce ==
    chainDone => (chainChanges = 1 /\ debouncedQuery = query)

\* C3, amended: after several updates each less than the delay after the
\* previous one, the timer callback runs exactly once, exactly when the delay
\* has elapsed since the last update, and sets the debounced value to the
\* value of the last update; no callback runs earlier in the burst, and the
\* debounced value changes at most once (not at all when the last update
\* restores the value it already holds).
C3_OneEmissionOfLastValue ==
    /\ (chainUpdates >= 2 /\ chainEmits >= 1) =>
            /\ sinceUpdate = DEBOUNCE_MS
            /\ chainEmits = 1
            /\ debouncedQuery = query
    /\ chainDone => (chainEmits = 1 /\ debouncedQuery = query)
    /\ chainUpdates >= 2 => chainChanges <= chainEmits

\* "Item 1" then "Item 12" within the delay: one emission, of "Item 12".
C3_Witness ==
    /\ chainDone
    /\ chainEmits = 1
    /\ chainChanges = 1
    /\ query = Q_ITEM_12
    /\ debouncedQuery = Q_ITEM_12

\* C4: every change of the debounced query leaves the reset of the counter
\* pending, and the first state in which it is no longer pending has
\* pagesLoaded = 1, whatever the counter was before.
C4_ResetOnQueryChange ==
    [][/\ debouncedQuery' # debouncedQuery => resetDep' # debouncedQuery'
       /\ (resetPending /\ resetDep' = debouncedQuery') => pagesLoaded' = 1]_vars

\* The debounced query has changed while several pages were loaded.
C4_Witness ==
    /\ mounted
    /\ resetPending
    /\ chainChanges >= 1
    /\ pagesLoaded > 1

\* Reading of "case-insensitive substring of the trimmed query", stated
\* without the operations of the program.
C5_Blank == {" ", "\t", "\n"}

C5_Trimmed(q) ==
    LET solid == {k \in 1..Len(q) : q[k] \notin C5_Blank}
    IN  IF solid = {}
        THEN <<>>
        ELSE SubSeq(q,
                    CHOOSE a \in solid : \A b \in solid : a <= b,
                    CHOOSE a \in solid : \A b \in solid : a >= b)

C5_SameLetter(a, b) ==
    \/ a = b
    \/ \E k \in 1..26 : {a, b} = {UpperCaseLetters[k], LowerCaseLetters[k]}

C5_Contains(text, q) ==
    \E off \in 0..(Len(text) - Len(q)) :
        \A j \in 1..Len(q) : C5_SameLetter(text[off + j], q[j])

C5_Matches(it, q) ==
    \/ C5_Contains(it.title, q)
    \/ C5_Contains(it.subtitle, q)
    \/ C5_Contains(it.description, q)

\* C5: the filter result is exactly the items whose title, subtitle or
\* description contains the trimmed query as a case-insensitive substring,
\* each once, in the order of the dataset.
C5_FilterIsMatchingSubsequence ==
    filterDone =>
        LET kept == {i \in 1..Len(probe.items) :
                        C5_Matches(probe.items[i], C5_Trimmed(probe.query))}
        IN  /\ Len(probe.result) = Cardinality(kept)
            /\ \A n \in 1..Cardinality(kept) :
                    probe.result[n] =
                        probe.items[CHOOSE i \in kept :
                                        Cardinality({j \in kept : j < i}) = n - 1]

\* A query with a leading blank and the other case keeps the two matching
\* items of three, the description match first.
C5_Witness ==
    /\ filterDone
    /\ probe.query = <<" ", "A">>
    /\ Len(probe.items) = 3
    /\ Len(probe.result) = 2
    /\ probe.result[1].id = 3
    /\ probe.result[2].id = 1

\* C6: the visible items are a prefix of the filtered matches, and the
\* visible list for the stored pagesLoaded is a prefix of the visible list
\* for every larger value up to totalPages.
C6_VisiblePrefixMonotone ==
    /\ IsPrefix(visibleItems, filteredItems)
    /\ \A p \in pagesLoaded..totalPages :
            IsPrefix(visibleItems, visibleItemsFor(debouncedQuery, p))

\* C7: totalPages >= 1; it is 1 when nothing matches and the ceiling of
\* filteredCount / pageSize otherwise.
C7_TotalPages ==
    /\ totalPages >= 1
    /\ Len(filteredItems) = 0 => totalPages = 1
    /\ Len(filteredItems) > 0 =>
            /\ (totalPages - 1) * PAGE_SIZE < Len(filteredItems)
            /\ Len(filteredItems) <= totalPages * PAGE_SIZE

\* A filtered count that is no multiple of the page size.
C7_Witness ==
    /\ Len(filteredItems) > 2 * PAGE_SIZE
    /\ Len(filteredItems) % PAGE_SIZE # 0
    /\ totalPages = 3

\* C8: a debounced query that is empty or all whitespace filters nothing:
\* the filtered items are the dataset, in its order.
C8_BlankQueryKeepsAll ==
    (\A k \in 1..Len(debouncedQuery) : debouncedQuery[k] \in C5_Blank) =>
        filteredItems = items

\* The debounced query is two blanks.
C8_Witness ==
    /\ debouncedQuery = Q_BLANK
    /\ Len(filteredItems) = TOTAL_ITEMS

\* C9: a page window holds no page number twice, no two gap markers next to
\* each other, and no gap marker at either end.
C9_NoDuplicateNoAdjacentGap ==
    windowBuilt =>
        LET w == probe.window
        IN  /\ \A i, j \in 1..Len(w) :
                    (i < j /\ ~w[i].gap /\ ~w[j].gap) => w[i].page # w[j].page
            /\ \A i \in 1..(Len(w) - 1) : ~(w[i].gap /\ w[i + 1].gap)
            /\ ~w[1].gap
            /\ ~w[Len(w)].gap

\* A window with two gap markers.
C9_Witness ==
    /\ windowBuilt
    /\ probe.total > MAX_LENGTH
    /\ Cardinality({i \in 1..Len(probe.window) : probe.window[i].gap}) = 2

\* C10: for total > maxLength and 5 <= current <= total - 4 the window is
\* [1, gap, current-2, current-1, current, current+1, current+2, gap, total].
C10_MiddleWindow ==
    (windowBuilt /\ probe.total > MAX_LENGTH
        /\ 5 <= probe.current /\ probe.current <= probe.total - 4) =>
        probe.window =
            <<PageLabel(1), GAP, PageLabel(probe.current - 2),
              PageLabel(probe.current - 1), PageLabel(probe.current),
              PageLabel(probe.current + 1), PageLabel(probe.current + 2),
              GAP, PageLabel(probe.total)>>

\* total = 20, current = 10 gives [1, gap, 8, 9, 10, 11, 12, gap, 20].
C10_Witness ==
    /\ windowBuilt
    /\ probe.total = 20
    /\ probe.current = 10
    /\ probe.window =
            <<PageLabel(1), GAP, PageLabel(8), PageLabel(9), PageLabel(10),
              PageLabel(11), PageLabel(12), GAP, PageLabel(20)>>

\* C11: for every total with 1 <= total <= maxLength and every current (in
\* the range of the call or outside it), buildPageWindow(current, total) is the
\* page numbers 1..total in ascending order, with no gap marker.
C11_SmallTotalAllPages ==
    (windowBuilt /\ probe.total <= MAX_LENGTH) =>
        /\ probe.window = [n \in 1..probe.total |-> PageLabel(n)]
        /\ \A c \in (-MaxBelow)..(MaxTotal + 1) :
                buildPageWindow(c, probe.total, MAX_LENGTH)
                    = [n \in 1..probe.total |-> PageLabel(n)]

\* total = 5, current = 3 gives [1, 2, 3, 4, 5].
C11_Witness ==
    /\ windowBuilt
    /\ probe.total = 5
    /\ probe.current = 3
    /\ probe.window = <<PageLabel(1), PageLabel(2), PageLabel(3), PageLabel(4),
                        PageLabel(5)>>

\* C12: with the 1000 generated items and page size 50, the debounced query
\* "Category 3" keeps exactly the items with (id % 10) + 1 = 3, which are 100
\* items, and totalPages is 2.
C12_CategoryThree ==
    debouncedQuery = Q_CATEGORY_3 =>
        /\ Len(items) = 1000
        /\ PAGE_SIZE = 50
        /\ {filteredItems[k].id : k \in 1..Len(filteredItems)}
                = {i \in 1..1000 : (i % 10) + 1 = 3}
        /\ Len(filteredItems) = 100
        /\ totalPages = 2

\* "Category 3" has been typed and its timer has fired.
C12_Witness ==
    /\ mounted
    /\ query = Q_CATEGORY_3
    /\ debouncedQuery = Q_CATEGORY_3
    /\ timers = {}
    /\ Len(filteredItems) = 100
    /\ totalPages = 2

\* C13: the reset of pagesLoaded is atomic with the change of the debounced
\* query: in no rendered state is the filtered result of the new debounced
\* query shown while the reset is still to come and pagesLoaded holds a value
\* other than 1, left over from before the change.
C13_AtomicReset ==
    (mounted /\ resetPending) => pagesLoaded = 1

\* C14: a new input value cancels the timer pending for the previous value:
\* at most one debounce timer is pending, and it is the one the last run of
\* the effect started, for the current raw query, so no cancelled timer is
\* left to fire; after the unmount no timer is left, so the debounced value
\* is not set after teardown.
C14_DebounceCancellation ==
    /\ Cardinality(timers) <= 1
    /\ \A t \in timers : t.id = timerId /\ t.value = query
    /\ ~mounted => timers = {}

\* Two inputs within the delay, then the unmount while the timer of the
\* second is pending.
C14_Witness ==
    /\ ~mounted
    /\ chainUpdates >= 2
    /\ sinceUpdate < DEBOUNCE_MS
    /\ query # debouncedQuery
    /\ timers = {}

\* C15: while the component is mounted, the raw and the debounced query
\* differ only while a debounce timer is pending, and the debounced query
\* only takes the value the raw query holds when the timer fires.
C15_DivergeOnlyWhilePending ==
    [][/\ (mounted' /\ timers' = {}) => debouncedQuery' = query'
       /\ debouncedQuery' # debouncedQuery =>
                (debouncedQuery' = query /\ query' = query)
       /\ \A t \in timers :
                (mounted /\ TimerFire(t)) => debouncedQuery' = query]_vars

\* The timer of "Item 1" has fired.
C15_Witness ==
    /\ mounted
    /\ timers = {}
    /\ chainEmits = 1
    /\ query = Q_ITEM_1
    /\ debouncedQuery = Q_ITEM_1

C17_VisibleCount ==
    mounted =>
        Len(visibleItems)
            = Min(Min(pagesLoaded, totalPages) * PAGE_SIZE, Len(filteredItems))

\* C18: in every reachable state the visible list is empty, and "No results
\* found." is shown, only if no item matches the debounced query.
C18_EmptyOnlyWhenNoMatch ==
    mounted => (emptyStateShown => Len(filteredItems) = 0)

\* C19: a click on the enabled Prev button lowers effectivePagesLoaded by
\* exactly 1, a click on the enabled Next or Load more raises it by exactly
\* 1, and a click on a rendered page-number button p makes it p.
C19_ClicksMoveByOne ==
    [][/\ Prev => effectivePagesLoaded' = effectivePagesLoaded - 1
       /\ (NextPage \/ LoadMore) => effectivePagesLoaded' = effectivePagesLoaded + 1
       /\ \A p \in pageButtons : ClickPage(p) => effectivePagesLoaded' = p]_vars

\* C20, as stated: at most one observer is connected at any time, one is
\* connected only while effectivePagesLoaded < totalPages, and none is
\* connected after the unmount.
C20_ObserverOnlyWhileMore ==
    /\ Len(observers) <= 1
    /\ (mounted /\ observers # <<>>) => effectivePagesLoaded < totalPages
    /\ ~mounted => observers = <<>>

\* C20, amended: at most one observer is connected at any time (the cleanup
\* disconnects the old one before the effect connects a new one); once the
\* effects of a render have run, an observer is connected exactly when
\* effectivePagesLoaded < totalPages, and it caps at the current
\* totalPages; while the effects of a render are still to run, the
\* observer connected is the one of the previous run of the effect, which
\* may be connected although effectivePagesLoaded >= totalPages; none is
\* connected after the unmount.
C20_ObserverLifecycle ==
    /\ Len(observers) <= 1
    /\ mounted =>
            /\ observers # <<>> <=> observerDeps[1] < observerDeps[2]
            /\ \A k \in 1..Len(observers) : observers[k].totalPages = observerDeps[2]
    /\ (mounted /\ ~observerPending) =>
            (observers # <<>> <=> effectivePagesLoaded < totalPages)
    /\ ~mounted => observers = <<>>

\* The observer's callback has loaded the last page and the effect that
\* disconnects the observer has yet to run.
C20_Witness ==
    /\ mounted
    /\ observerPending
    /\ Len(observers) = 1
    /\ observers[1].totalPages = totalPages
    /\ effectivePagesLoaded = totalPages

====
